---- MODULE Spec2Model ----
(***************************************************************************)
(* Model of the Data Vault transformation-and-validation engine:           *)
(* DataProcessor.process_data (core/nodes/data_vault_parser.py) driving    *)
(* HubParser, LinkParser, SatelliteParser and LinkSatelliteParser.         *)
(*                                                                         *)
(* Python dicts are functions with a string domain; a dict that lacks a    *)
(* key is a function whose DOMAIN lacks it.  Python lists are sequences,   *)
(* Python sets are sets.  An f-string is the tuple of its pieces; the      *)
(* sorted list of a set inside a message is represented by the set.        *)
(* created_at / processed_at timestamps are left out of the documents.     *)
(***************************************************************************)
EXTENDS Integers, Sequences, FiniteSets, TLC

VARIABLES input_data, mapping_df, hash_seed, phase, i, raised, results, docs,
          hubs_metadata, links_metadata, summaries, run_no

vars == <<input_data, mapping_df, hash_seed, phase, i, raised, results, docs,
          hubs_metadata, links_metadata, summaries, run_no>>

\* ------------------------------------------------------------------ bounds
MaxHubs == 2
MaxLinks == 2
MaxSats == 1
MaxLsats == 1
\* process_data calls made on one DataProcessor instance
MaxRuns == 2

\* --------------------------------------------------------------- helpers
ToSet(s) == { s[k] : k \in 1..Len(s) }

Has(d, f) == f \in DOMAIN d

SeqsUpTo(S, n) == UNION { [1..k -> S] : k \in 0..n }

NoDoc == [none |-> TRUE]

\* str.lower() on the names that occur in the models below
Lower(s) ==
  CASE s = "HUB_ORDER" -> "hub_order"
    [] s = "HUB_CUSTOMER" -> "hub_customer"
    [] s = "HUB_NONE" -> "hub_none"
    [] s = "LNK_ORDER_CUSTOMER" -> "lnk_order_customer"
    [] s = "LNK_NONE" -> "lnk_none"
    [] s = "SAT_CUSTOMER_PROFILE" -> "sat_customer_profile"
    [] s = "LSAT_ORDER_CUSTOMER" -> "lsat_order_customer"
    [] s = "ORDERS" -> "orders"
    [] s = "CUSTOMERS" -> "customers"
    [] s = "UNKNOWN" -> "unknown"
    [] OTHER -> s

\* name.split("_")[1] on the hub names that occur in the models below
SplitSecond(s) ==
  CASE s = "HUB_ORDER" -> "ORDER"
    [] s = "HUB_CUSTOMER" -> "CUSTOMER"
    [] s = "HUB_NONE" -> "NONE"
    [] OTHER -> "?"

\* ParserConfig defaults
config == [version |-> "1.0.0", default_varchar_length |-> "255",
           target_schema |-> "integration", collision_code |-> "mdm"]

\* ------------------------------------------------------- column catalog
Row(s, t, c, d, l) ==
  [SCHEMA_NAME |-> s, TABLE_NAME |-> t, COLUMN_NAME |-> c,
   DATA_TYPE |-> d, LENGTH |-> l]

\* a missing value of a DataFrame cell (float nan)
NaN == "float(nan)"

SampleCatalog ==
  << Row("SRC", "ORDERS", "ORDER_ID", "NUMBER", "-"),
     Row("SRC", "ORDERS", "CUSTOMER_ID", "NUMBER", "-"),
     Row("SRC", "ORDERS", "AMOUNT", "NUMBER", "-"),
     Row("CRM", "CUSTOMERS", "CUSTOMER_ID", "NUMBER", "-"),
     Row("CRM", "CUSTOMERS", "CUST_CODE", "VARCHAR2", "50"),
     Row("CRM", "CUSTOMERS", "NAME", "VARCHAR2", "-"),
     Row("CRM", "CUSTOMERS", "EMAIL", "VARCHAR2", NaN),
     Row("CRM", "CUSTOMERS", "PHONE", "VARCHAR2", " ") >>

\* a DataFrame without one of its columns
DropColumn(df, c) == [ k \in 1..Len(df) |-> [ f \in DOMAIN df[k] \ {c} |-> df[k][f] ] ]

\* catalogs that lack a column the builders read
MalformedCatalogs ==
  { DropColumn(SampleCatalog, "TABLE_NAME"),
    DropColumn(SampleCatalog, "COLUMN_NAME"),
    DropColumn(SampleCatalog, "DATA_TYPE") }

Catalogs == { SampleCatalog } \cup MalformedCatalogs

\* df[c] raises KeyError(c) when the frame has no column c; the frames of
\* the model that lack a column are not empty
HasColumn(df, c) == df = <<>> \/ c \in DOMAIN df[1]

\* str(x).strip() on the LENGTH cells that occur in the catalogs
str_strip(x) ==
  CASE x = NaN -> "nan"
    [] x = " " -> ""
    [] OTHER -> x

\* mapping_df[mapping_df[col] == v] / .isin(vs): the rows kept, in order
FilterRows(df, field, values) == SelectSeq(df, LAMBDA r : r[field] \in values)

\* ------------------------------------------------------ DataTypeService
\* hub_parser.py / link_parser.py variant of _process_varchar
DataTypeService_process_varchar(length) ==
  IF length # "" /\ length \notin {"-", "", " "}
  THEN <<"VARCHAR2(", length, ")">>
  ELSE <<"VARCHAR2(", config.default_varchar_length, ")">>

\* sat_parser.py / lsat_parser.py variant of _process_varchar
SatDataTypeService_process_varchar(length) ==
  IF length # "" /\ length # "-"
  THEN <<"VARCHAR2(", length, ")">>
  ELSE <<"VARCHAR2(", config.default_varchar_length, ")">>

\* the _process_varchar of the module whose DataTypeService is in use
process_varchar(service, length) ==
  IF service = "sat"
  THEN SatDataTypeService_process_varchar(length)
  ELSE DataTypeService_process_varchar(length)

DataTypeService_get_default_type(col) ==
  [error |-> <<"Column ", col, " not found in mapping data">>,
   data_type |-> <<"VARCHAR2(", config.default_varchar_length, ")">>]

\* column_info['DATA_TYPE'] raising KeyError is caught: the default type
DataTypeService_process_column_type(col, column_info, service) ==
  IF ~Has(column_info, "DATA_TYPE")
  THEN DataTypeService_get_default_type(col)
  ELSE
  LET length == IF Has(column_info, "LENGTH")
                THEN str_strip(column_info["LENGTH"]) ELSE ""
  IN [data_type |-> IF column_info["DATA_TYPE"] = "VARCHAR2"
                    THEN process_varchar(service, length)
                    ELSE <<column_info["DATA_TYPE"]>>,
      original_type |-> column_info["DATA_TYPE"],
      length |-> length]

\* mapping_df['COLUMN_NAME'] raises KeyError for the first key looked up when
\* the frame has no such column, and lookup_datatypes re-raises it
DataTypeService_lookup_raises(columns, df) ==
  columns # <<>> /\ ~HasColumn(df, "COLUMN_NAME")

\* result[key] for every key of the list (a dict keyed by column name)
DataTypeService_lookup_datatypes(columns, df, service) ==
  [ col \in ToSet(columns) |->
      LET filtered_df == FilterRows(df, "COLUMN_NAME", {col})
      IN IF filtered_df = <<>>
         THEN DataTypeService_get_default_type(col)
         ELSE DataTypeService_process_column_type(col, filtered_df[1],
                                                  service) ]

\* ------------------------------------------------------- parse results
Ok(doc) == [ok |-> TRUE, doc |-> doc]
Raise(msg) == [ok |-> FALSE, error |-> msg]

\* variant: the status does not look at the warnings
build_metadata_AlwaysValid(warnings) ==
  [version |-> config.version,
   validation_status |-> "valid",
   validation_warnings |-> IF warnings = <<>> THEN "None" ELSE warnings]

\* "valid" if not warnings else "warnings"; warnings if warnings else None
build_metadata(warnings) ==
  [version |-> config.version,
   validation_status |-> IF warnings = <<>> THEN "valid" ELSE "warnings",
   validation_warnings |-> IF warnings = <<>> THEN "None" ELSE warnings]

\* ------------------------------------------------------------ HubParser
HubParser_build_columns(hub_data, datatype_info) ==
  << [target |-> <<"dv_hkey_", Lower(hub_data["name"])>>,
      dtype |-> <<"raw">>,
      key_type |-> "hash_key_hub",
      source |-> hub_data["business_keys"]] >>
  \o [ k \in 1..Len(hub_data["business_keys"]) |->
        LET biz_key == hub_data["business_keys"][k] IN
        [target |-> <<"CUS_", biz_key>>,
         dtype |-> datatype_info[biz_key].data_type,
         key_type |-> "biz_key",
         source |-> [name |-> biz_key,
                     dtype |-> datatype_info[biz_key].data_type]] ]

HubParser_build_output_dict(hub_data, source_schema, datatype_info, warnings) ==
  [source_schema |-> source_schema,
   source_table |-> Lower(hub_data["source_tables"][1]),
   target_schema |-> config.target_schema,
   target_table |-> Lower(hub_data["name"]),
   target_entity_type |-> "hub",
   collision_code |-> SplitSecond(hub_data["name"]),
   description |-> hub_data["description"],
   metadata |-> build_metadata(warnings),
   columns |-> HubParser_build_columns(hub_data, datatype_info)]

HubRequiredFields == <<"name", "business_keys", "source_tables", "description">>

\* the first required field that is missing, or "" when none is
FirstMissing(d, fields) ==
  LET miss == { k \in 1..Len(fields) : ~Has(d, fields[k]) }
  IN IF miss = {} THEN ""
     ELSE fields[CHOOSE k \in miss : \A m \in miss : k <= m]

HubParser_validate(hub_data) ==
  LET f == FirstMissing(hub_data, HubRequiredFields) IN
  IF f # "" THEN Raise(<<"Missing required field: ", f>>)
  ELSE IF hub_data["business_keys"] = <<>>
       THEN Raise(<<"Business keys cannot be empty">>)
  ELSE IF hub_data["source_tables"] = <<>>
       THEN Raise(<<"Source tables cannot be empty">>)
  ELSE [ok |-> TRUE, warnings |-> <<>>]

HubParser_parse(hub_data, df) ==
  IF ~Has(hub_data, "name") THEN Raise(<<"'name'">>)
  ELSE
  LET v == HubParser_validate(hub_data) IN
  IF ~v.ok THEN v
  ELSE IF ~HasColumn(df, "TABLE_NAME") THEN Raise(<<"'TABLE_NAME'">>)
  ELSE
  LET filtered_df == FilterRows(df, "TABLE_NAME",
          ToSet(hub_data["source_tables"]))
  IN IF filtered_df = <<>>
     THEN Raise(<<"Could not determine source schema from mapping data">>)
     ELSE IF ~HasColumn(filtered_df, "SCHEMA_NAME")
     THEN Raise(<<"'SCHEMA_NAME'">>)
     ELSE IF DataTypeService_lookup_raises(hub_data["business_keys"], filtered_df)
     THEN Raise(<<"'COLUMN_NAME'">>)
     ELSE Ok(HubParser_build_output_dict(hub_data,
               filtered_df[1]["SCHEMA_NAME"],
               DataTypeService_lookup_datatypes(hub_data["business_keys"],
                    filtered_df, "hub"),
               v.warnings))

\* --------------------------------------------------- HubMetadataService
\* dict comprehension over data.get("hubs", []): a later hub of the same
\* name replaces an earlier one; hub["name"] etc. raise KeyError when absent
HubCacheFields == {"name", "business_keys", "source_tables"}

DeclaredList(data, key) == IF Has(data, key) THEN data[key] ELSE <<>>

cache_hubs_metadata_raises(data) ==
  \E k \in 1..Len(DeclaredList(data, "hubs")) :
     ~(HubCacheFields \subseteq DOMAIN DeclaredList(data, "hubs")[k])

cache_hubs_metadata(data) ==
  LET hubs == DeclaredList(data, "hubs")
      Last(n) == CHOOSE k \in 1..Len(hubs) :
                   /\ hubs[k]["name"] = n
                   /\ \A m \in 1..Len(hubs) : hubs[m]["name"] = n => m <= k
  IN [ n \in { hubs[k]["name"] : k \in 1..Len(hubs) } |->
         [business_keys |-> ToSet(hubs[Last(n)]["business_keys"]),
          source_tables |-> ToSet(hubs[Last(n)]["source_tables"])] ]

\* iteration order of a Python set of str: fixed by the process's hash seed.
\* ColRank orders the column names; seed 1 iterates upwards, seed 2 downwards.
ColRank(c) ==
  CASE c = "ORDER_ID" -> 1
    [] c = "CUSTOMER_ID" -> 2
    [] c = "CUST_CODE" -> 3
    [] c = "CUST_ID" -> 4
    [] c = "EXTRA_COL" -> 5
    [] c = "NAME" -> 6
    [] c = "AMOUNT" -> 7
    [] OTHER -> 8

HashSeeds == {1, 2}

RECURSIVE SetIteration(_, _)
SetIteration(S, seed) ==
  IF S = {} THEN <<>>
  ELSE LET x == CHOOSE y \in S : \A z \in S :
                   IF seed = 1 THEN ColRank(y) <= ColRank(z)
                               ELSE ColRank(y) >= ColRank(z)
       IN <<x>> \o SetIteration(S \ {x}, seed)

\* callers have already checked hub_name \in DOMAIN cache (validate)
get_hub_business_keys(cache, hub_name, link_keys) ==
  ToSet(link_keys) \cap cache[hub_name].business_keys

\* ----------------------------------------------------------- LinkParser
\* variant: the missing-keys check left out
LinkParser_validate_hub_keys_NoMissingCheck(link_name, hub_name, link_keys, hub_keys) ==
  IF link_keys \cap hub_keys = {}
  THEN << <<"Link ", link_name, " has no business keys from hub ",
            hub_name>> >>
  ELSE <<>>

\* variant: the no-keys-from-this-hub check left out
LinkParser_validate_hub_keys_NoRelatedCheck(link_name, hub_name, link_keys, hub_keys) ==
  IF hub_keys \ link_keys # {}
  THEN << <<"Link ", link_name, " is missing business keys from hub ",
            hub_name, ": ", hub_keys \ link_keys>> >>
  ELSE <<>>

LinkParser_validate_hub_keys(link_name, hub_name, link_keys, hub_keys) ==
  (IF hub_keys \ link_keys # {}
   THEN << <<"Link ", link_name, " is missing business keys from hub ",
             hub_name, ": ", hub_keys \ link_keys>> >>
   ELSE <<>>)
  \o
  (IF link_keys \cap hub_keys = {}
   THEN << <<"Link ", link_name, " has no business keys from hub ",
             hub_name>> >>
   ELSE <<>>)

RECURSIVE LinkHubWarnings(_, _, _, _)
LinkHubWarnings(cache, link_name, link_keys, related) ==
  IF related = <<>> THEN <<>>
  ELSE LinkParser_validate_hub_keys(link_name, Head(related), link_keys,
                                    cache[Head(related)].business_keys)
       \o LinkHubWarnings(cache, link_name, link_keys, Tail(related))

\* variant: extra keys reported as a warning instead of raising
LinkParser_validate_ExtraAsWarning(link_data, cache) ==
  IF ~Has(link_data, "business_keys") THEN Raise(<<"'business_keys'">>)
  ELSE IF ~Has(link_data, "related_hubs") THEN Raise(<<"'related_hubs'">>)
  ELSE
  LET link_keys == ToSet(link_data["business_keys"])
      link_name == link_data["name"]
      related == link_data["related_hubs"]
      unknown == { k \in 1..Len(related) : related[k] \notin DOMAIN cache }
      all_hub_keys == UNION { cache[related[k]].business_keys :
                                k \in 1..Len(related) }
  IN IF unknown # {}
     THEN Raise(<<"Link ", link_name, " references non-existent hub: ",
                  related[CHOOSE k \in unknown : \A m \in unknown : k <= m]>>)
     ELSE [ok |-> TRUE,
           warnings |->
             LinkHubWarnings(cache, link_name, link_keys, related)
             \o (IF link_keys \ all_hub_keys # {}
                 THEN << <<"Link ", link_name,
                           " contains business keys that don't belong to any related hub: ",
                           link_keys \ all_hub_keys>> >>
                 ELSE <<>>)]

\* variant: the check for extra keys left out
LinkParser_validate_NoExtraCheck(link_data, cache) ==
  IF ~Has(link_data, "business_keys") THEN Raise(<<"'business_keys'">>)
  ELSE IF ~Has(link_data, "related_hubs") THEN Raise(<<"'related_hubs'">>)
  ELSE
  LET link_keys == ToSet(link_data["business_keys"])
      link_name == link_data["name"]
      related == link_data["related_hubs"]
      unknown == { k \in 1..Len(related) : related[k] \notin DOMAIN cache }
  IN IF unknown # {}
     THEN Raise(<<"Link ", link_name, " references non-existent hub: ",
                  related[CHOOSE k \in unknown : \A m \in unknown : k <= m]>>)
     ELSE [ok |-> TRUE,
           warnings |-> LinkHubWarnings(cache, link_name, link_keys, related)]

LinkParser_validate(link_data, cache) ==
  IF ~Has(link_data, "business_keys") THEN Raise(<<"'business_keys'">>)
  ELSE IF ~Has(link_data, "related_hubs") THEN Raise(<<"'related_hubs'">>)
  ELSE
  LET link_keys == ToSet(link_data["business_keys"])
      link_name == link_data["name"]
      related == link_data["related_hubs"]
      unknown == { k \in 1..Len(related) : related[k] \notin DOMAIN cache }
      all_hub_keys == UNION { cache[related[k]].business_keys :
                                k \in 1..Len(related) }
  IN IF unknown # {}
     THEN Raise(<<"Link ", link_name, " references non-existent hub: ",
                  related[CHOOSE k \in unknown : \A m \in unknown : k <= m]>>)
     ELSE IF link_keys \ all_hub_keys # {}
     THEN Raise(<<"Link ", link_name,
                  " contains business keys that don't belong to any related hub: ",
                  link_keys \ all_hub_keys>>)
     ELSE [ok |-> TRUE,
           warnings |-> LinkHubWarnings(cache, link_name, link_keys, related)]

\* variant: no hub hash key column for a related hub that shares no key
\* with the link
LinkParser_build_columns_SkipEmpty(link_data, datatype_info, cache, seed) ==
  << [target |-> <<"dv_hkey_", Lower(link_data["name"])>>,
      dtype |-> <<"raw">>,
      key_type |-> "hash_key_lnk",
      source |-> link_data["business_keys"]] >>
  \o SelectSeq(
      [ k \in 1..Len(link_data["related_hubs"]) |->
        LET hub_name == link_data["related_hubs"][k]
            hub_keys == SetIteration(
                          get_hub_business_keys(cache, hub_name,
                                                link_data["business_keys"]),
                          seed)
        IN [target |-> <<"dv_hkey_", Lower(hub_name)>>,
            dtype |-> <<"raw">>,
            key_type |-> "hash_key_hub",
            parent |-> Lower(hub_name),
            source |-> [ j \in 1..Len(hub_keys) |->
                          [name |-> hub_keys[j],
                           dtype |-> datatype_info[hub_keys[j]].data_type] ]] ],
      LAMBDA c : c.source # <<>>)

LinkParser_build_columns(link_data, datatype_info, cache, seed) ==
  << [target |-> <<"dv_hkey_", Lower(link_data["name"])>>,
      dtype |-> <<"raw">>,
      key_type |-> "hash_key_lnk",
      source |-> link_data["business_keys"]] >>
  \o [ k \in 1..Len(link_data["related_hubs"]) |->
        LET hub_name == link_data["related_hubs"][k]
            hub_keys == SetIteration(
                          get_hub_business_keys(cache, hub_name,
                                                link_data["business_keys"]),
                          seed)
        IN [target |-> <<"dv_hkey_", Lower(hub_name)>>,
            dtype |-> <<"raw">>,
            key_type |-> "hash_key_hub",
            parent |-> Lower(hub_name),
            source |-> [ j \in 1..Len(hub_keys) |->
                          [name |-> hub_keys[j],
                           dtype |-> datatype_info[hub_keys[j]].data_type] ]] ]

LinkParser_build_output_dict(link_data, source_schema, datatype_info, warnings, cache, seed) ==
  [source_schema |-> source_schema,
   source_table |-> link_data["source_tables"][1],
   target_schema |-> config.target_schema,
   target_table |-> link_data["name"],
   target_entity_type |-> "lnk",
   collision_code |-> "mdm",
   description |-> link_data["description"],
   metadata |-> build_metadata(warnings),
   columns |-> LinkParser_build_columns(link_data, datatype_info, cache, seed)]

LinkParser_parse(link_data, df, cache, seed) ==
  IF ~Has(link_data, "name") THEN Raise(<<"'name'">>)
  ELSE IF ~HasColumn(df, "TABLE_NAME") THEN Raise(<<"'TABLE_NAME'">>)
  ELSE IF ~Has(link_data, "source_tables") THEN Raise(<<"'source_tables'">>)
  ELSE
  LET filtered_df == FilterRows(df, "TABLE_NAME",
          ToSet(link_data["source_tables"]))
  IN IF filtered_df = <<>>
     THEN Raise(<<"Could not determine source schema from mapping data">>)
     ELSE IF ~HasColumn(filtered_df, "SCHEMA_NAME")
     THEN Raise(<<"'SCHEMA_NAME'">>)
     ELSE
     LET v == LinkParser_validate(link_data, cache) IN
     IF ~v.ok THEN v
     ELSE IF DataTypeService_lookup_raises(link_data["business_keys"], filtered_df)
     THEN Raise(<<"'COLUMN_NAME'">>)
     ELSE IF ~Has(link_data, "description") THEN Raise(<<"'description'">>)
     ELSE Ok(LinkParser_build_output_dict(link_data,
               filtered_df[1]["SCHEMA_NAME"],
               DataTypeService_lookup_datatypes(link_data["business_keys"],
                    filtered_df, "hub"),
               v.warnings, cache, seed))

\* ------------------------------------------------------ SatelliteParser
\* validate is a stub: it returns no warning for any satellite
SatelliteParser_validate(sat_data) == <<>>

\* None when the source table is not in the mapping data
SatelliteParser_get_source_schema(sat_data, df) ==
  LET filtered_df == FilterRows(df, "TABLE_NAME",
          {sat_data["source_table"]})
  IN IF filtered_df # <<>> THEN filtered_df[1]["SCHEMA_NAME"] ELSE "None"

\* the three fixed columns, then one per descriptive attribute
DependentColumns(data, datatype_info, own_key_type, parent_field, parent_key_type) ==
  << [target |-> <<"dv_hkey_", Lower(data["name"])>>,
      dtype |-> <<"raw">>,
      key_type |-> own_key_type,
      source |-> "None"],
     [target |-> <<"dv_hkey_", Lower(data[parent_field])>>,
      dtype |-> <<"raw">>,
      key_type |-> parent_key_type,
      source |-> data["business_keys"]],
     [target |-> <<"dv_hsh_diff">>,
      dtype |-> <<"raw">>,
      key_type |-> "hash_diff",
      source |-> "None"] >>
  \o [ k \in 1..Len(data["descriptive_attrs"]) |->
        LET attr == data["descriptive_attrs"][k] IN
        [target |-> <<attr>>,
         dtype |-> datatype_info[attr].data_type,
         source |-> [name |-> attr,
                     dtype |-> datatype_info[attr].data_type]] ]

SatelliteParser_build_columns(sat_data, datatype_info) ==
  DependentColumns(sat_data, datatype_info, "hash_key_sat", "hub",
                   "hash_key_hub")

SatelliteParser_build_output_dict(sat_data, source_schema, datatype_info, warnings) ==
  [source_schema |-> source_schema,
   source_table |-> sat_data["source_table"],
   target_schema |-> config.target_schema,
   target_table |-> sat_data["name"],
   target_entity_type |-> "sat",
   parent_table |-> sat_data["hub"],
   metadata |-> build_metadata(warnings),
   columns |-> SatelliteParser_build_columns(sat_data, datatype_info)]

\* the first KeyError of parse, in the order the code reads the satellite's
\* fields and the frame's columns, or "" when there is none
SatelliteParser_KeyError(sat_data, df) ==
  IF ~Has(sat_data, "name") THEN "name"
  ELSE IF ~HasColumn(df, "TABLE_NAME") THEN "TABLE_NAME"
  ELSE IF ~Has(sat_data, "source_table") THEN "source_table"
  ELSE IF /\ FilterRows(df, "TABLE_NAME", {sat_data["source_table"]}) # <<>>
          /\ ~HasColumn(df, "SCHEMA_NAME") THEN "SCHEMA_NAME"
  ELSE IF ~Has(sat_data, "business_keys") THEN "business_keys"
  ELSE IF ~Has(sat_data, "descriptive_attrs") THEN "descriptive_attrs"
  ELSE IF DataTypeService_lookup_raises(
            sat_data["business_keys"] \o sat_data["descriptive_attrs"], df)
       THEN "COLUMN_NAME"
  ELSE IF ~Has(sat_data, "hub") THEN "hub"
  ELSE ""

SatelliteParser_parse(sat_data, df) ==
  LET f == SatelliteParser_KeyError(sat_data, df)
  IN IF f # "" THEN Raise(<<"'", f, "'">>)
     ELSE Ok(SatelliteParser_build_output_dict(sat_data,
               SatelliteParser_get_source_schema(sat_data, df),
               DataTypeService_lookup_datatypes(
                    sat_data["business_keys"] \o sat_data["descriptive_attrs"],
                    df, "sat"),
               SatelliteParser_validate(sat_data)))

\* -------------------------------------------------- LinkSatelliteParser
LinkCacheFields == {"name", "business_keys", "related_hubs", "source_tables"}

cache_links_metadata_raises(data) ==
  \E k \in 1..Len(DeclaredList(data, "links")) :
     ~(LinkCacheFields \subseteq DOMAIN DeclaredList(data, "links")[k])

cache_links_metadata(data) ==
  LET links == DeclaredList(data, "links")
      Last(n) == CHOOSE k \in 1..Len(links) :
                   /\ links[k]["name"] = n
                   /\ \A m \in 1..Len(links) : links[m]["name"] = n => m <= k
  IN [ n \in { links[k]["name"] : k \in 1..Len(links) } |->
         [business_keys |-> ToSet(links[Last(n)]["business_keys"]),
          related_hubs |-> ToSet(links[Last(n)]["related_hubs"]),
          source_tables |-> ToSet(links[Last(n)]["source_tables"])] ]

\* variant: extra keys raise, as they do for a link
LinkSatelliteParser_validate_ExtraFatal(lsat_data, cache) ==
  IF ~Has(lsat_data, "link") THEN Raise(<<"'link'">>)
  ELSE
  LET link_name == lsat_data["link"] IN
  IF link_name \notin DOMAIN cache
  THEN Raise(<<"Link satellite references non-existent link: ", link_name>>)
  ELSE
  LET link_keys == cache[link_name].business_keys
      lsat_keys == ToSet(lsat_data["business_keys"])
      missing_keys == link_keys \ lsat_keys
      extra_keys == lsat_keys \ link_keys
  IN IF extra_keys # {}
     THEN Raise(<<"Link satellite ", lsat_data["name"],
                  " contains extra business keys not in parent link ",
                  link_name, ": ", extra_keys>>)
     ELSE [ok |-> TRUE,
           warnings |->
             IF missing_keys # {}
             THEN << <<"Link satellite ", lsat_data["name"],
                       " is missing business keys from parent link ",
                       link_name, ": ", missing_keys>> >>
             ELSE <<>>]

LinkSatelliteParser_validate(lsat_data, cache) ==
  IF ~Has(lsat_data, "link") THEN Raise(<<"'link'">>)
  ELSE
  LET link_name == lsat_data["link"] IN
  IF link_name \notin DOMAIN cache
  THEN Raise(<<"Link satellite references non-existent link: ", link_name>>)
  ELSE
  LET link_keys == cache[link_name].business_keys
      lsat_keys == ToSet(lsat_data["business_keys"])
      missing_keys == link_keys \ lsat_keys
      extra_keys == lsat_keys \ link_keys
  IN [ok |-> TRUE,
      warnings |->
        (IF missing_keys # {}
         THEN << <<"Link satellite ", lsat_data["name"],
                   " is missing business keys from parent link ", link_name,
                   ": ", missing_keys>> >>
         ELSE <<>>)
        \o
        (IF extra_keys # {}
         THEN << <<"Link satellite ", lsat_data["name"],
                   " contains extra business keys not in parent link ",
                   link_name, ": ", extra_keys>> >>
         ELSE <<>>)]

LinkSatelliteParser_build_columns(lsat_data, datatype_info) ==
  DependentColumns(lsat_data, datatype_info, "hash_key_lsat", "link",
                   "hash_key_lnk")

LinkSatelliteParser_build_output_dict(lsat_data, source_schema, datatype_info, warnings) ==
  [source_schema |-> source_schema,
   source_table |-> lsat_data["source_table"],
   target_schema |-> config.target_schema,
   target_table |-> lsat_data["name"],
   target_entity_type |-> "lsat",
   parent_table |-> lsat_data["link"],
   metadata |-> build_metadata(warnings),
   columns |-> LinkSatelliteParser_build_columns(lsat_data, datatype_info)]

LinkSatelliteParser_parse(lsat_data, df, cache) ==
  LET f == IF ~Has(lsat_data, "name") THEN "name"
           ELSE IF ~HasColumn(df, "TABLE_NAME") THEN "TABLE_NAME"
           ELSE IF ~Has(lsat_data, "source_table") THEN "source_table"
           ELSE ""
  IN IF f # "" THEN Raise(<<"'", f, "'">>)
     ELSE
     LET filtered_df == FilterRows(df, "TABLE_NAME",
          {lsat_data["source_table"]})
         g == FirstMissing(lsat_data, <<"business_keys", "descriptive_attrs">>)
     IN IF filtered_df = <<>>
        THEN Raise(<<"Could not find source table ", lsat_data["source_table"],
                     " in mapping data">>)
        ELSE IF ~HasColumn(filtered_df, "SCHEMA_NAME")
        THEN Raise(<<"'SCHEMA_NAME'">>)
        ELSE IF g # "" THEN Raise(<<"'", g, "'">>)
        ELSE IF DataTypeService_lookup_raises(
                  lsat_data["business_keys"] \o lsat_data["descriptive_attrs"], df)
        THEN Raise(<<"'COLUMN_NAME'">>)
        ELSE
        LET v == LinkSatelliteParser_validate(lsat_data, cache) IN
        IF ~v.ok THEN v
        ELSE Ok(LinkSatelliteParser_build_output_dict(lsat_data,
                  filtered_df[1]["SCHEMA_NAME"],
                  DataTypeService_lookup_datatypes(
                     lsat_data["business_keys"] \o lsat_data["descriptive_attrs"],
                     df, "sat"),
                  v.warnings))

\* ------------------------------------------------ classification models
Without(d, f) == [ k \in DOMAIN d \ {f} |-> d[k] ]

Hub(n, bk, st) ==
  [name |-> n, business_keys |-> bk, source_tables |-> st,
   description |-> "hub"]

Link(n, rh, bk, st) ==
  [name |-> n, related_hubs |-> rh, business_keys |-> bk,
   source_tables |-> st, description |-> "link"]

Sat(n, h, bk, t, da) ==
  [name |-> n, hub |-> h, business_keys |-> bk, source_table |-> t,
   descriptive_attrs |-> da]

Lsat(n, l, bk, t, da) ==
  [name |-> n, link |-> l, business_keys |-> bk, source_table |-> t,
   descriptive_attrs |-> da]

HubOrder == Hub("HUB_ORDER", <<"ORDER_ID">>, <<"ORDERS">>)
HubCustomer == Hub("HUB_CUSTOMER", <<"CUSTOMER_ID">>, <<"CUSTOMERS">>)

HubCustomerCode ==
  Hub("HUB_CUSTOMER", <<"CUSTOMER_ID", "CUST_CODE">>, <<"CUSTOMERS">>)

CoreHubChoices == { HubOrder, HubCustomer, HubCustomerCode }

HubChoices ==
  CoreHubChoices
  \cup { Hub("HUB_ORDER", <<>>, <<"ORDERS">>),
         Hub("HUB_ORDER", <<"ORDER_ID">>, <<"UNKNOWN">>),
         Hub("HUB_CUSTOMER", <<"CUST_ID", "EMAIL", "PHONE">>, <<"CUSTOMERS">>),
         Hub("HUB_CUSTOMER", <<"CUSTOMER_ID">>, <<"CUSTOMERS", "ORDERS">>),
         Without(HubOrder, "business_keys") }

LinkOC(bk) ==
  Link("LNK_ORDER_CUSTOMER", <<"HUB_ORDER", "HUB_CUSTOMER">>, bk, <<"ORDERS">>)

CoreLinkChoices ==
  { LinkOC(<<"ORDER_ID", "CUSTOMER_ID">>),
    LinkOC(<<"ORDER_ID", "CUSTOMER_ID", "EXTRA_COL">>),
    LinkOC(<<"ORDER_ID">>),
    LinkOC(<<"CUST_CODE", "CUSTOMER_ID", "ORDER_ID">>) }

LinkChoices ==
  CoreLinkChoices
  \cup { Link("LNK_ORDER_CUSTOMER", <<"HUB_ORDER", "HUB_CUSTOMER">>,
              <<"ORDER_ID">>, <<"UNKNOWN">>),
         Link("LNK_ORDER_CUSTOMER", <<"HUB_ORDER", "HUB_CUSTOMER">>,
              <<"ORDER_ID", "CUSTOMER_ID">>, <<>>),
         LinkOC(<<>>),
         Without(LinkOC(<<"ORDER_ID", "CUSTOMER_ID">>), "business_keys") }

SatProfile(h, bk, da) == Sat("SAT_CUSTOMER_PROFILE", h, bk, "CUSTOMERS", da)

SatChoices ==
  { SatProfile("HUB_CUSTOMER", <<"CUSTOMER_ID">>, <<"NAME">>),
    SatProfile("HUB_CUSTOMER", <<"CUST_ID">>, <<"NAME">>),
    SatProfile("HUB_CUSTOMER", <<"CUSTOMER_ID">>, <<"CUSTOMER_ID", "NAME">>),
    SatProfile("HUB_NONE", <<"CUSTOMER_ID">>, <<"NAME">>),
    SatProfile("HUB_CUSTOMER", <<>>, <<"NAME">>),
    SatProfile("HUB_CUSTOMER", <<"CUSTOMER_ID">>,
               <<"CUST_CODE", "EMAIL", "PHONE">>),
    SatProfile("HUB_CUSTOMER", <<"CUSTOMER_ID">>, <<"NAME", "AMOUNT">>),
    Sat("SAT_CUSTOMER_PROFILE", "HUB_CUSTOMER", <<"CUSTOMER_ID">>, "UNKNOWN",
        <<"NAME">>),
    Without(SatProfile("HUB_CUSTOMER", <<"CUSTOMER_ID">>, <<"NAME">>),
            "descriptive_attrs") }

LsatOC(l, bk, t, da) == Lsat("LSAT_ORDER_CUSTOMER", l, bk, t, da)

LsatChoices ==
  { LsatOC("LNK_ORDER_CUSTOMER", <<"ORDER_ID", "CUSTOMER_ID">>, "ORDERS",
           <<"AMOUNT">>),
    LsatOC("LNK_ORDER_CUSTOMER", <<"ORDER_ID">>, "ORDERS", <<"AMOUNT">>),
    LsatOC("LNK_ORDER_CUSTOMER", <<"ORDER_ID", "EXTRA_COL">>, "ORDERS",
           <<"AMOUNT">>),
    LsatOC("LNK_ORDER_CUSTOMER", <<"ORDER_ID", "CUSTOMER_ID">>, "ORDERS",
           <<"ORDER_ID", "AMOUNT">>),
    LsatOC("LNK_ORDER_CUSTOMER", <<"ORDER_ID", "CUSTOMER_ID">>, "UNKNOWN",
           <<"AMOUNT">>),
    LsatOC("LNK_ORDER_CUSTOMER", <<>>, "ORDERS", <<"AMOUNT">>),
    LsatOC("LNK_NONE", <<"ORDER_ID", "CUSTOMER_ID">>, "ORDERS", <<"AMOUNT">>) }

\* a top-level key of the model with its list, or the key not present at all
Present(list) == [present |-> TRUE, list |-> list]
Absent == [present |-> FALSE, list |-> <<>>]

\* the model dict: only the keys that are present
MkInput(h, l, s, ls) ==
  LET opt == [hubs |-> h, links |-> l, satellites |-> s, link_satellites |-> ls]
  IN [ k \in { x \in DOMAIN opt : opt[x].present } |-> opt[k].list ]

BaseHubLists == { <<HubOrder, HubCustomer>>, <<HubOrder, HubCustomerCode>> }

BaseLinkLists ==
  { <<LinkOC(<<"ORDER_ID", "CUSTOMER_ID">>)>>,
    <<LinkOC(<<"ORDER_ID">>)>> }

BaseSatLists == { <<SatProfile("HUB_CUSTOMER", <<"CUSTOMER_ID">>, <<"NAME">>)>> }

BaseLsatLists ==
  { <<LsatOC("LNK_ORDER_CUSTOMER", <<"ORDER_ID", "CUSTOMER_ID">>, "ORDERS",
             <<"AMOUNT">>)>> }

Lists(S) == { Present(x) : x \in S }
Opts(S) == Lists(S) \cup {Absent}

\* models that vary the hubs and the links: the core hub lists against the
\* core link lists, every hub list against the base links, every link list
\* against the base hubs
HubLinkModels ==
  { MkInput(h, l, s, ls) :
      h \in Lists(SeqsUpTo(CoreHubChoices, MaxHubs)),
      l \in Opts(SeqsUpTo(CoreLinkChoices, MaxLinks)),
      s \in Lists(BaseSatLists), ls \in Lists(BaseLsatLists) }
  \cup
  { MkInput(h, l, s, ls) :
      h \in Lists(SeqsUpTo(HubChoices, MaxHubs)),
      l \in Lists(BaseLinkLists),
      s \in Lists(BaseSatLists), ls \in Lists(BaseLsatLists) }
  \cup
  { MkInput(h, l, s, ls) :
      h \in Lists(BaseHubLists),
      l \in Lists(SeqsUpTo(LinkChoices, MaxLinks)),
      s \in Lists(BaseSatLists), ls \in Lists(BaseLsatLists) }

\* models that vary the satellites, and models that vary the link
\* satellites, over the base hubs and links
DependentModels ==
  { MkInput(h, l, s, ls) :
      h \in Lists(BaseHubLists), l \in Lists(BaseLinkLists),
      s \in Opts(SeqsUpTo(SatChoices, MaxSats)),
      ls \in Opts(BaseLsatLists) }
  \cup
  { MkInput(h, l, s, ls) :
      h \in Lists(BaseHubLists), l \in Lists(BaseLinkLists),
      s \in Opts(BaseSatLists),
      ls \in Opts(SeqsUpTo(LsatChoices, MaxLsats)) }

\* the models with base lists only
BaseModels ==
  { MkInput(h, l, s, ls) :
      h \in Lists(BaseHubLists), l \in Lists(BaseLinkLists),
      s \in Lists(BaseSatLists), ls \in Lists(BaseLsatLists) }

\* a run: a model and the hash seed of the process.  The seed is varied where
\* the links vary (only a link build iterates over a set).
Runs ==
  (HubLinkModels \X HashSeeds) \cup (DependentModels \X {1})

\* a run with its catalog: every run on the sample catalog, the base models
\* on the catalogs that lack a column
Setups ==
  (Runs \X {SampleCatalog}) \cup ((BaseModels \X {1}) \X MalformedCatalogs)

\* the models of a later process_data call on the same instance: other hubs
\* than before, links without their hubs, link satellites without their links
RerunModels ==
  { MkInput(Present(<<HubOrder>>), Absent, Absent, Absent),
    MkInput(Present(<<HubOrder>>),
            Present(<<LinkOC(<<"ORDER_ID", "CUSTOMER_ID">>)>>), Absent, Absent),
    MkInput(Absent, Present(<<LinkOC(<<"ORDER_ID">>)>>), Absent,
            Present(<<LsatOC("LNK_ORDER_CUSTOMER", <<"ORDER_ID">>, "ORDERS",
                             <<"AMOUNT">>)>>)),
    MkInput(Absent, Absent, Absent,
            Present(<<LsatOC("LNK_ORDER_CUSTOMER", <<"ORDER_ID", "CUSTOMER_ID">>,
                             "ORDERS", <<"AMOUNT">>)>>)) }

\* -------------------------------------------------------- DataProcessor
Phases == <<"Init", "BuildHubs", "BuildLinks", "BuildSatellites",
            "BuildLinkSatellites", "Done">>

NoResults == [hubs |-> <<>>, links |-> <<>>, satellites |-> <<>>,
              link_satellites |-> <<>>]

\* sum(1 for r in entity_results if r["status"] == s) and ... != s
CountStatus(rs, s) == Cardinality({ k \in 1..Len(rs) : rs[k].status = s })

CountNotStatus(rs, s) == Cardinality({ k \in 1..Len(rs) : rs[k].status # s })

\* variant: only the outcomes without warnings count as successful
save_summaries_ValidOnly(rs) ==
  [ entity_type \in { t \in DOMAIN rs : rs[t] # <<>> } |->
      [total |-> Len(rs[entity_type]),
       successful |-> CountStatus(rs[entity_type], "valid"),
       warnings |-> CountStatus(rs[entity_type], "warnings"),
       errors |-> CountStatus(rs[entity_type], "error"),
       details |-> rs[entity_type]] ]

\* _save_summaries: one summary per entity type that has outcomes
save_summaries(rs) ==
  [ entity_type \in { t \in DOMAIN rs : rs[t] # <<>> } |->
      [total |-> Len(rs[entity_type]),
       successful |-> CountNotStatus(rs[entity_type], "error"),
       warnings |-> CountStatus(rs[entity_type], "warnings"),
       errors |-> CountStatus(rs[entity_type], "error"),
       details |-> rs[entity_type]] ]

Init ==
  /\ \E s \in Setups :
       input_data = s[1][1] /\ hash_seed = s[1][2] /\ mapping_df = s[2]
  /\ run_no = 1
  /\ summaries = <<>>
  /\ phase = "Init"
  /\ i = 1
  /\ raised = "None"
  /\ results = NoResults
  /\ docs = NoResults
  /\ hubs_metadata = <<>>
  /\ links_metadata = <<>>

Running == raised = "None"

\* dict.get("name"): None when the key is absent
GetName(d) == IF Has(d, "name") THEN d["name"] ELSE "None"

\* the entry appended to the phase's results for one entity
SuccessOutcome(field, name, doc) ==
  [entity |-> field, name |-> name,
   status |-> doc.metadata.validation_status,
   warnings |-> doc.metadata.validation_warnings]

ErrorOutcome(field, name, msg) ==
  [entity |-> field, name |-> name, status |-> "error", error |-> msg]

\* variant: a parser that keeps an error flag across the builds of a phase,
\* so that every build after a failed one is recorded as failed too
Record_StickyError(key, field, entity, r) ==
  LET failed == \E k \in 1..Len(results[key]) : results[key][k].status = "error"
      ok == r.ok /\ ~failed
  IN /\ results' = [results EXCEPT ![key] = Append(@,
                      IF ok THEN SuccessOutcome(field, entity["name"], r.doc)
                      ELSE ErrorOutcome(field, GetName(entity),
                                        IF r.ok THEN <<"previous error">> ELSE r.error))]
     /\ docs' = [docs EXCEPT ![key] = Append(@, IF ok THEN r.doc ELSE NoDoc)]
     /\ i' = i + 1

\* one iteration of a phase's loop: parse, save the document, append the outcome
Record(key, field, entity, r) ==
  /\ results' = [results EXCEPT ![key] = Append(@,
                   IF r.ok THEN SuccessOutcome(field, entity["name"], r.doc)
                   ELSE ErrorOutcome(field, GetName(entity), r.error))]
  /\ docs' = [docs EXCEPT ![key] = Append(@, IF r.ok THEN r.doc ELSE NoDoc)]
  /\ i' = i + 1

\* process_data up to the first phase: output directory, empty results
StartHubs ==
  /\ Running /\ phase = "Init"
  /\ phase' = "BuildHubs"
  /\ i' = 1
  /\ results' = NoResults
  /\ UNCHANGED <<input_data, mapping_df, hash_seed, raised, docs,
                 hubs_metadata, links_metadata,
                 summaries, run_no>>

\* _process_hubs: one hub of the loop
ProcessHub ==
  /\ Running /\ phase = "BuildHubs"
  /\ i <= Len(DeclaredList(input_data, "hubs"))
  /\ Record("hubs", "hub", input_data["hubs"][i],
            HubParser_parse(input_data["hubs"][i], mapping_df))
  /\ UNCHANGED <<input_data, mapping_df, hash_seed, phase, raised,
                 hubs_metadata, links_metadata,
                 summaries, run_no>>

\* variant: the hub cache is filled only while it is still empty
StartLinks_FillOnce ==
  /\ Running /\ phase = "BuildHubs"
  /\ i > Len(DeclaredList(input_data, "hubs"))
  /\ phase' = "BuildLinks"
  /\ i' = 1
  /\ IF Has(input_data, "links") /\ hubs_metadata = <<>>
     THEN IF cache_hubs_metadata_raises(input_data)
          THEN raised' = "KeyError" /\ UNCHANGED hubs_metadata
          ELSE /\ hubs_metadata' = cache_hubs_metadata(input_data)
               /\ UNCHANGED raised
     ELSE UNCHANGED <<raised, hubs_metadata>>
  /\ UNCHANGED <<input_data, mapping_df, hash_seed, results, docs,
                 links_metadata,
                 summaries, run_no>>

\* _process_links up to its loop: the hub cache is filled from the model;
\* a KeyError in the comprehension escapes process_data
StartLinks ==
  /\ Running /\ phase = "BuildHubs"
  /\ i > Len(DeclaredList(input_data, "hubs"))
  /\ phase' = "BuildLinks"
  /\ i' = 1
  /\ IF Has(input_data, "links")
     THEN IF cache_hubs_metadata_raises(input_data)
          THEN raised' = "KeyError" /\ UNCHANGED hubs_metadata
          ELSE /\ hubs_metadata' = cache_hubs_metadata(input_data)
               /\ UNCHANGED raised
     ELSE UNCHANGED <<raised, hubs_metadata>>
  /\ UNCHANGED <<input_data, mapping_df, hash_seed, results, docs,
                 links_metadata,
                 summaries, run_no>>

\* _process_links: one link of the loop
ProcessLink ==
  /\ Running /\ phase = "BuildLinks"
  /\ i <= Len(DeclaredList(input_data, "links"))
  /\ Record("links", "link", input_data["links"][i],
            LinkParser_parse(input_data["links"][i], mapping_df,
                             hubs_metadata, hash_seed))
  /\ UNCHANGED <<input_data, mapping_df, hash_seed, phase, raised,
                 hubs_metadata, links_metadata,
                 summaries, run_no>>

StartSatellites ==
  /\ Running /\ phase = "BuildLinks"
  /\ i > Len(DeclaredList(input_data, "links"))
  /\ phase' = "BuildSatellites"
  /\ i' = 1
  /\ UNCHANGED <<input_data, mapping_df, hash_seed, raised, results, docs,
                 hubs_metadata, links_metadata,
                 summaries, run_no>>

\* _process_satellites: one satellite of the loop
ProcessSatellite ==
  /\ Running /\ phase = "BuildSatellites"
  /\ i <= Len(DeclaredList(input_data, "satellites"))
  /\ Record("satellites", "satellite", input_data["satellites"][i],
            SatelliteParser_parse(input_data["satellites"][i], mapping_df))
  /\ UNCHANGED <<input_data, mapping_df, hash_seed, phase, raised,
                 hubs_metadata, links_metadata,
                 summaries, run_no>>

\* _process_link_satellites up to its loop: the link cache is filled
StartLinkSatellites ==
  /\ Running /\ phase = "BuildSatellites"
  /\ i > Len(DeclaredList(input_data, "satellites"))
  /\ phase' = "BuildLinkSatellites"
  /\ i' = 1
  /\ IF Has(input_data, "link_satellites")
     THEN IF cache_links_metadata_raises(input_data)
          THEN raised' = "KeyError" /\ UNCHANGED links_metadata
          ELSE /\ links_metadata' = cache_links_metadata(input_data)
               /\ UNCHANGED raised
     ELSE UNCHANGED <<raised, links_metadata>>
  /\ UNCHANGED <<input_data, mapping_df, hash_seed, results, docs,
                 hubs_metadata,
                 summaries, run_no>>

\* _process_link_satellites: one link satellite of the loop
ProcessLinkSatellite ==
  /\ Running /\ phase = "BuildLinkSatellites"
  /\ i <= Len(DeclaredList(input_data, "link_satellites"))
  /\ Record("link_satellites", "link_satellite",
            input_data["link_satellites"][i],
            LinkSatelliteParser_parse(input_data["link_satellites"][i],
                                      mapping_df, links_metadata))
  /\ UNCHANGED <<input_data, mapping_df, hash_seed, phase, raised,
                 hubs_metadata, links_metadata,
                 summaries, run_no>>

\* _save_summaries and the return of the results
Finish ==
  /\ Running /\ phase = "BuildLinkSatellites"
  /\ i > Len(DeclaredList(input_data, "link_satellites"))
  /\ phase' = "Done"
  /\ summaries' = save_summaries(results)
  /\ UNCHANGED <<input_data, mapping_df, hash_seed, i, raised, results, docs,
                 hubs_metadata, links_metadata, run_no>>

\* another process_data call on the same DataProcessor, after the previous
\* one returned or raised: the parsers and their caches are those of the
\* instance, the results are the call's own
NextRun ==
  /\ phase = "Done" \/ ~Running
  /\ run_no < MaxRuns
  /\ run_no' = run_no + 1
  /\ input_data' \in RerunModels
  /\ phase' = "Init"
  /\ i' = 1
  /\ raised' = "None"
  /\ results' = NoResults
  /\ docs' = NoResults
  /\ summaries' = <<>>
  /\ UNCHANGED <<mapping_df, hash_seed, hubs_metadata, links_metadata>>

\* the steps of one process_data call
RunStep ==
  \/ StartHubs
  \/ ProcessHub
  \/ StartLinks
  \/ ProcessLink
  \/ StartSatellites
  \/ ProcessSatellite
  \/ StartLinkSatellites
  \/ ProcessLinkSatellite
  \/ Finish

Next ==
  \/ RunStep
  \/ NextRun

Spec == Init /\ [][Next]_vars

\* ===================================================================
\* Properties
\* ===================================================================
PhaseKeys == <<"hubs", "links", "satellites", "link_satellites">>

Declared(key) == DeclaredList(input_data, key)

Attempted(key) == Len(results[key])

\* the position of a phase in the run: Init 1, BuildHubs 2, ..., Done 6
PhaseRank(p) == CHOOSE r \in 1..Len(Phases) : Phases[r] = p

\* what building entity k of a phase returns or raises in the current state
BuildOf(key, k) ==
  CASE key = "hubs" -> HubParser_parse(Declared(key)[k], mapping_df)
    [] key = "links" -> LinkParser_parse(Declared(key)[k], mapping_df,
                                         hubs_metadata, hash_seed)
    [] key = "satellites" -> SatelliteParser_parse(Declared(key)[k], mapping_df)
    [] key = "link_satellites" ->
         LinkSatelliteParser_parse(Declared(key)[k], mapping_df, links_metadata)

\* the business keys the model declares for a hub / link name (the last
\* declaration of the name counts); empty when the name is not declared
DeclaredKeysOf(key, n) ==
  LET es == Declared(key)
      named == { k \in 1..Len(es) : Has(es[k], "name") /\ es[k]["name"] = n }
  IN IF named = {} THEN {}
     ELSE LET e == es[CHOOSE k \in named : \A m \in named : m <= k]
          IN IF Has(e, "business_keys") THEN ToSet(e["business_keys"]) ELSE {}

IsDeclared(key, n) ==
  \E k \in 1..Len(Declared(key)) :
     Has(Declared(key)[k], "name") /\ Declared(key)[k]["name"] = n

InCatalog(table) ==
  /\ \A c \in {"TABLE_NAME", "SCHEMA_NAME", "COLUMN_NAME"} :
       HasColumn(mapping_df, c)
  /\ \E r \in 1..Len(mapping_df) : mapping_df[r]["TABLE_NAME"] = table

WarningCount(doc) ==
  IF doc.metadata.validation_warnings = "None" THEN 0
  ELSE Len(doc.metadata.validation_warnings)

\* C1: per-entity failure isolation: process_data never aborts; each phase
\* records one outcome per declared entity, in declaration order, with status
\* error and the message for each entity whose build raises, and every phase
\* is completed.
C1_FailureIsolation ==
  /\ raised = "None"
  /\ \A p \in 1..Len(PhaseKeys) :
       LET key == PhaseKeys[p] IN
       /\ Attempted(key) <= Len(Declared(key))
       /\ \A k \in 1..Attempted(key) :
            /\ results[key][k].name = GetName(Declared(key)[k])
            /\ ~BuildOf(key, k).ok =>
                 /\ results[key][k].status = "error"
                 /\ results[key][k].error = BuildOf(key, k).error
       /\ phase = "Done" => Attempted(key) = Len(Declared(key))

\* C2: phase order: the run is in one of the six phases, no entity of a phase
\* is built before every entity of the earlier phases has been attempted, and
\* the run does not stop before Done.
C2_PhaseOrder ==
  /\ phase \in ToSet(Phases)
  /\ \A p \in 1..Len(PhaseKeys) : \A q \in 1..Len(PhaseKeys) :
       (p < q /\ Attempted(PhaseKeys[q]) > 0) =>
          Attempted(PhaseKeys[p]) = Len(Declared(PhaseKeys[p]))
  /\ \A p \in 1..Len(PhaseKeys) :
       Attempted(PhaseKeys[p]) > 0 => PhaseRank(phase) >= p + 1
  /\ phase = "Done" \/ ENABLED RunStep

\* C3: once the link phase has started, the hub cache holds the declared
\* business keys and source tables of every hub of the model, also of hubs
\* whose build ended in error, and no hub keeps the link phase from running.
C3_HubCacheComplete ==
  (PhaseRank(phase) >= 3 /\ Has(input_data, "links")) =>
     /\ phase = "BuildLinks" => raised = "None"
     /\ \A k \in 1..Len(Declared("hubs")) :
          LET hub == Declared("hubs")[k] IN
          Has(hub, "name") =>
            /\ hub["name"] \in DOMAIN hubs_metadata
            /\ hubs_metadata[hub["name"]].business_keys
                 = DeclaredKeysOf("hubs", hub["name"])
            /\ \E m \in 1..Len(Declared("hubs")) :
                 /\ GetName(Declared("hubs")[m]) = hub["name"]
                 /\ Has(Declared("hubs")[m], "source_tables")
                 /\ hubs_metadata[hub["name"]].source_tables
                      = ToSet(Declared("hubs")[m]["source_tables"])

\* ---- links
Links == Declared("links")

HasAll(d, fields) == fields \subseteq DOMAIN d

LinkFields == {"name", "related_hubs", "business_keys", "source_tables",
               "description"}

\* the union of the declared business keys of the link's related hubs
RelatedHubKeys(link) ==
  UNION { DeclaredKeysOf("hubs", link["related_hubs"][h]) :
            h \in 1..Len(link["related_hubs"]) }

\* extra = link.keys - union of the related hubs' keys
ExtraKeys(link) == ToSet(link["business_keys"]) \ RelatedHubKeys(link)

\* a link whose build can fail for no reason other than its key sets: every
\* field present, every related hub declared, a source table in the catalog
LinkBuildable(link) ==
  /\ HasAll(link, LinkFields)
  /\ \A h \in 1..Len(link["related_hubs"]) :
       IsDeclared("hubs", link["related_hubs"][h])
  /\ \E t \in 1..Len(link["source_tables"]) : InCatalog(link["source_tables"][t])

\* C4: a link with a business key that belongs to none of its related hubs is
\* fatal for that link only: its outcome has status error, no document is
\* produced for it, the link loop goes on to the next link, and the run is not
\* aborted on its account (only a link that lacks a field the link cache
\* reads can stop the later phases).
C4_ExtraKeysFatal ==
  \A k \in 1..Attempted("links") :
     (HasAll(Links[k], {"name", "business_keys", "related_hubs"})
        /\ ExtraKeys(Links[k]) # {}) =>
       /\ results.links[k].status = "error"
       /\ results.links[k].name = Links[k]["name"]
       /\ docs.links[k] = NoDoc
       /\ phase = "BuildLinks" => (raised = "None" /\ i = Attempted("links") + 1)
       /\ phase = "BuildSatellites" => raised = "None"
       /\ ~cache_links_metadata_raises(input_data) => raised = "None"

\* a link with an extra key was recorded as an error, the next link got its
\* document, and the run went through the later phases to Done
C4_Witness ==
  /\ phase = "Done"
  /\ Attempted("satellites") > 0 /\ Attempted("link_satellites") > 0
  /\ \E k \in 1..Attempted("links") :
       /\ HasAll(Links[k], {"name", "business_keys", "related_hubs"})
       /\ "EXTRA_COL" \in ExtraKeys(Links[k])
       /\ results.links[k].status = "error"
       /\ k < Attempted("links")
       /\ docs.links[k + 1] # NoDoc

\* C5: key-union invariant: every link document emitted as valid has exactly
\* the union of its related hubs' declared business keys as its key set, and
\* no link with a key outside that union gets a document at all.
C5_KeyUnion ==
  \A k \in 1..Attempted("links") :
     docs.links[k] # NoDoc =>
       /\ ToSet(Links[k]["business_keys"]) \subseteq RelatedHubKeys(Links[k])
       /\ docs.links[k].metadata.validation_status = "valid" =>
            ToSet(Links[k]["business_keys"]) = RelatedHubKeys(Links[k])

\* a valid link document over two hubs, one of them with two business keys
C5_Witness ==
  \E k \in 1..Attempted("links") :
     /\ docs.links[k] # NoDoc
     /\ docs.links[k].metadata.validation_status = "valid"
     /\ Cardinality(RelatedHubKeys(Links[k])) = 3

\* the related hubs (positions in related_hubs) the link misses keys of, and
\* those it has no key of
HubsWithMissingKeys(link) ==
  { h \in 1..Len(link["related_hubs"]) :
      DeclaredKeysOf("hubs", link["related_hubs"][h])
        \ ToSet(link["business_keys"]) # {} }

HubsWithNoKey(link) ==
  { h \in 1..Len(link["related_hubs"]) :
      DeclaredKeysOf("hubs", link["related_hubs"][h])
        \cap ToSet(link["business_keys"]) = {} }

\* C6: missing hub keys are not fatal for a link: a buildable link without
\* extra keys gets its document, with one warning per related hub it misses
\* keys of plus one per related hub it has no key of, and with
\* validation_status = warnings as soon as there is such a warning; the
\* outcome carries the same status.
C6_MissingKeysWarn ==
  \A k \in 1..Attempted("links") :
     (LinkBuildable(Links[k]) /\ ExtraKeys(Links[k]) = {}) =>
       /\ docs.links[k] # NoDoc
       /\ WarningCount(docs.links[k])
            = Cardinality(HubsWithMissingKeys(Links[k]))
              + Cardinality(HubsWithNoKey(Links[k]))
       /\ (HubsWithMissingKeys(Links[k]) \cup HubsWithNoKey(Links[k]) # {}) =>
            /\ docs.links[k].metadata.validation_status = "warnings"
            /\ results.links[k].status = "warnings"
            /\ results.links[k].warnings = docs.links[k].metadata.validation_warnings

\* two link documents with warnings: one for a link that has a key of each
\* hub but misses one (a single warning), one for a link with no key of a
\* hub (two warnings for that hub)
C6_Witness ==
  \E k \in 1..Attempted("links") : \E m \in 1..Attempted("links") :
     /\ LinkBuildable(Links[k]) /\ ExtraKeys(Links[k]) = {}
     /\ HubsWithMissingKeys(Links[k]) # {} /\ HubsWithNoKey(Links[k]) = {}
     /\ docs.links[k] # NoDoc
     /\ docs.links[k].metadata.validation_status = "warnings"
     /\ WarningCount(docs.links[k]) = 1
     /\ LinkBuildable(Links[m]) /\ ExtraKeys(Links[m]) = {}
     /\ HubsWithNoKey(Links[m]) # {}
     /\ docs.links[m] # NoDoc
     /\ WarningCount(docs.links[m]) = 2

\* ---- satellites and link satellites
Sats == Declared("satellites")

Lsats == Declared("link_satellites")

SatFields == {"name", "hub", "business_keys", "source_table",
              "descriptive_attrs"}

LsatFields == {"name", "link", "business_keys", "source_table",
               "descriptive_attrs"}

\* C7: a satellite whose business-key set differs from the cached key set of
\* its parent hub still gets a document, with validation_status = warnings
\* and a warning for the mismatch; it is never emitted as valid.
C7_SatKeyMismatchWarns ==
  \A k \in 1..Attempted("satellites") :
     (/\ HasAll(Sats[k], SatFields)
      /\ Sats[k]["hub"] \in DOMAIN hubs_metadata
      /\ ToSet(Sats[k]["business_keys"])
           # hubs_metadata[Sats[k]["hub"]].business_keys) =>
       /\ docs.satellites[k] # NoDoc
       /\ docs.satellites[k].metadata.validation_status = "warnings"
       /\ WarningCount(docs.satellites[k]) > 0
       /\ results.satellites[k].status = "warnings"

\* C8: a satellite whose parent hub is not in the hub cache, and a link
\* satellite whose parent link is not in the link cache, is recorded with
\* status error and gets no document, and the loop goes on.
C8_UnknownParentFatal ==
  /\ \A k \in 1..Attempted("satellites") :
       (HasAll(Sats[k], SatFields)
          /\ Sats[k]["hub"] \notin DOMAIN hubs_metadata) =>
         /\ results.satellites[k].status = "error"
         /\ docs.satellites[k] = NoDoc
  /\ \A k \in 1..Attempted("link_satellites") :
       (HasAll(Lsats[k], LsatFields)
          /\ Lsats[k]["link"] \notin DOMAIN links_metadata) =>
         /\ results.link_satellites[k].status = "error"
         /\ docs.link_satellites[k] = NoDoc
  /\ (phase \in {"BuildSatellites", "BuildLinkSatellites"}
        /\ Attempted(IF phase = "BuildSatellites" THEN "satellites"
                     ELSE "link_satellites") > 0) =>
       (raised = "None"
        /\ i = Attempted(IF phase = "BuildSatellites" THEN "satellites"
                         ELSE "link_satellites") + 1)

\* a link satellite whose build can fail for no reason other than its keys:
\* every field present, its source table in the catalog, its parent declared
LsatBuildable(lsat) ==
  /\ HasAll(lsat, LsatFields)
  /\ InCatalog(lsat["source_table"])
  /\ IsDeclared("links", lsat["link"])

ParentMissing(lsat) ==
  DeclaredKeysOf("links", lsat["link"]) \ ToSet(lsat["business_keys"])

ParentExtra(lsat) ==
  ToSet(lsat["business_keys"]) \ DeclaredKeysOf("links", lsat["link"])

\* C9: for a buildable link satellite whose parent link exists, a difference
\* between its keys and the parent link's keys is never fatal: the document
\* is emitted, with one warning for the parent keys it misses and a separate
\* one for its keys that are not the parent's, validation_status = warnings
\* when there is such a difference and valid when there is none.
C9_LsatKeyDiffWarns ==
  \A k \in 1..Attempted("link_satellites") :
     LsatBuildable(Lsats[k]) =>
       /\ docs.link_satellites[k] # NoDoc
       /\ WarningCount(docs.link_satellites[k])
            = (IF ParentMissing(Lsats[k]) # {} THEN 1 ELSE 0)
              + (IF ParentExtra(Lsats[k]) # {} THEN 1 ELSE 0)
       /\ docs.link_satellites[k].metadata.validation_status
            = (IF ParentMissing(Lsats[k]) = {} /\ ParentExtra(Lsats[k]) = {}
               THEN "valid" ELSE "warnings")
       /\ results.link_satellites[k].status
            = docs.link_satellites[k].metadata.validation_status

\* a link satellite that both misses a key of its parent link and has a key
\* the parent has not: a document with two warnings
C9_Witness ==
  \E k \in 1..Attempted("link_satellites") :
     /\ LsatBuildable(Lsats[k])
     /\ ParentMissing(Lsats[k]) # {} /\ ParentExtra(Lsats[k]) # {}
     /\ docs.link_satellites[k] # NoDoc
     /\ docs.link_satellites[k].metadata.validation_status = "warnings"
     /\ WarningCount(docs.link_satellites[k]) = 2

\* the names of the descriptive columns of a satellite / link-satellite
\* document, and the source of its parent hash key
DescriptiveNames(doc) ==
  { doc.columns[c].source.name : c \in 4..Len(doc.columns) }

ParentKeySource(doc) == ToSet(doc.columns[2].source)

\* C10: disjointness: in every emitted satellite and link-satellite document
\* no column is both a descriptive column and a source of the parent hash
\* key, i.e. the entity's descriptive attributes and business keys are
\* disjoint.
C10_Disjoint ==
  \A key \in {"satellites", "link_satellites"} :
     \A k \in 1..Attempted(key) :
        docs[key][k] # NoDoc =>
          /\ DescriptiveNames(docs[key][k]) \cap ParentKeySource(docs[key][k]) = {}
          /\ ToSet(Declared(key)[k]["descriptive_attrs"])
               \cap ToSet(Declared(key)[k]["business_keys"]) = {}

\* ===================================================================
\* Runs, fallbacks, contracts, summaries, caches
\* ===================================================================
\* the document a link gets in a process with the given hash seed
LinkDocUnderSeed(k, seed) ==
  LinkParser_parse(Links[k], mapping_df, hubs_metadata, seed)

\* C11: idempotence: a run of the same model on the same catalog in another
\* process (another hash seed) gives every link the same document, the order
\* of the entries of every per-hub hash-key source included.
C11_Idempotent ==
  \A k \in 1..Attempted("links") :
     \A seed \in HashSeeds :
        /\ LinkDocUnderSeed(k, seed).ok = (docs.links[k] # NoDoc)
        /\ docs.links[k] # NoDoc => LinkDocUnderSeed(k, seed).doc = docs.links[k]

\* the columns a builder looks up for an entity, and the frame it looks
\* them up in (the rows of the source tables for a hub and a link, the whole
\* catalog for a satellite and a link satellite)
NeededColumns(key, e) ==
  IF key \in {"hubs", "links"} THEN e["business_keys"]
  ELSE e["business_keys"] \o e["descriptive_attrs"]

LookupFrame(key, e) ==
  IF key \in {"hubs", "links"}
  THEN FilterRows(mapping_df, "TABLE_NAME", ToSet(e["source_tables"]))
  ELSE mapping_df

LookupService(key) == IF key \in {"hubs", "links"} THEN "hub" ELSE "sat"

\* the needed columns of entity k whose type is the default type
FallbackColumns(key, k) ==
  LET e == Declared(key)[k]
      info == DataTypeService_lookup_datatypes(NeededColumns(key, e),
                 LookupFrame(key, e), LookupService(key))
  IN { c \in ToSet(NeededColumns(key, e)) : Has(info[c], "error") }

\* C12: when the type of a column an entity needs falls back to the default
\* type, the emitted document has validation_status = warnings and a warning
\* for that column, and the entity's outcome in the results carries it.
C12_FallbackWarned ==
  \A p \in 1..Len(PhaseKeys) :
     LET key == PhaseKeys[p] IN
     \A k \in 1..Attempted(key) :
        docs[key][k] # NoDoc =>
          \A c \in FallbackColumns(key, k) :
             /\ docs[key][k].metadata.validation_status = "warnings"
             /\ results[key][k].status = "warnings"
             /\ \E w \in 1..WarningCount(docs[key][k]) :
                  /\ c \in ToSet(docs[key][k].metadata.validation_warnings[w])
                  /\ results[key][k].warnings[w]
                       = docs[key][k].metadata.validation_warnings[w]

\* the fields the builder of an entity kind reads from the entity
RequiredFields(key) ==
  CASE key = "hubs" -> ToSet(HubRequiredFields)
    [] key = "links" -> LinkFields
    [] key = "satellites" -> SatFields
    [] key = "link_satellites" -> LsatFields

MissingField(key, e) == ~HasAll(e, RequiredFields(key))

EmptyKeyList(key, e) == Has(e, "business_keys") /\ e["business_keys"] = <<>>

EmptySourceTables(key, e) == Has(e, "source_tables") /\ e["source_tables"] = <<>>

\* C13: caller-contract errors: an entity of any kind that lacks a required
\* field, or whose business-key list or source-table list is empty, is
\* recorded with status error and a message, and no document is emitted for
\* it.
C13_ContractErrors ==
  \A p \in 1..Len(PhaseKeys) :
     LET key == PhaseKeys[p] IN
     \A k \in 1..Attempted(key) :
        LET e == Declared(key)[k] IN
        (MissingField(key, e) \/ EmptyKeyList(key, e) \/ EmptySourceTables(key, e)) =>
          /\ results[key][k].status = "error"
          /\ Has(results[key][k], "error")
          /\ docs[key][k] = NoDoc

\* str(e) of the KeyError a frame without a required column raises: an error
\* that is neither a validation nor a resolution error
CatalogKeyErrors == { <<"'TABLE_NAME'">>, <<"'SCHEMA_NAME'">>, <<"'COLUMN_NAME'">> }

UnexpectedError(r) == ~r.ok /\ r.error \in CatalogKeyErrors

\* C14: propagation policy: an unexpected error raised during an entity's
\* build (a catalog that lacks a required column) is never recorded as that
\* entity's outcome: it leaves process_data, so no entity whose build raises
\* it is among the attempted ones of a run that goes on.
C14_UnexpectedPropagates ==
  \A p \in 1..Len(PhaseKeys) :
     LET key == PhaseKeys[p] IN
     \A k \in 1..Attempted(key) :
        /\ ~UnexpectedError(BuildOf(key, k))
        /\ results[key][k].status = "error" =>
             results[key][k].error \notin CatalogKeyErrors

\* C15: run summary counts: once the run is done, every entity type with
\* outcomes has a summary whose total is the number of its outcomes (the
\* number of declared entities of the type), whose errors and warnings are
\* the numbers of outcomes with those statuses and whose successful is the
\* number of outcomes that are not errors, so that successful + errors =
\* total and warnings <= successful; a type without outcomes has no summary.
C15_SummaryCounts ==
  phase = "Done" =>
    /\ DOMAIN summaries = { key \in ToSet(PhaseKeys) : results[key] # <<>> }
    /\ \A key \in DOMAIN summaries :
         LET s == summaries[key]
             n(S) == Cardinality({ k \in 1..Len(results[key]) :
                                    results[key][k].status \in S })
         IN /\ s.total = Len(results[key])
            /\ s.total = Len(Declared(key))
            /\ s.errors = n({"error"})
            /\ s.warnings = n({"warnings"})
            /\ s.successful = n({"valid", "warnings"})
            /\ s.successful + s.errors = s.total
            /\ s.warnings <= s.successful
            /\ s.details = results[key]

\* a finished run whose link summary counts one error and one warning and
\* whose hub summary counts valid outcomes only
C15_Witness ==
  /\ phase = "Done"
  /\ {"hubs", "links"} \subseteq DOMAIN summaries
  /\ summaries["links"].total = 2
  /\ summaries["links"].errors = 1
  /\ summaries["links"].warnings = 1
  /\ summaries["hubs"].successful = 2
  /\ summaries["hubs"].warnings = 0

\* the phase in which the entities of a key are built
PhaseOf(key) ==
  CASE key = "hubs" -> "BuildHubs"
    [] key = "links" -> "BuildLinks"
    [] key = "satellites" -> "BuildSatellites"
    [] key = "link_satellites" -> "BuildLinkSatellites"

FieldOf(key) ==
  CASE key = "hubs" -> "hub"
    [] key = "links" -> "link"
    [] key = "satellites" -> "satellite"
    [] key = "link_satellites" -> "link_satellite"

\* the outcome and the document one build of entity k gives, from the model,
\* the catalog and the cache alone
OutcomeOf(key, k) ==
  LET r == BuildOf(key, k)
  IN IF r.ok THEN SuccessOutcome(FieldOf(key), Declared(key)[k]["name"], r.doc)
     ELSE ErrorOutcome(FieldOf(key), GetName(Declared(key)[k]), r.error)

DocOf(key, k) == LET r == BuildOf(key, k) IN IF r.ok THEN r.doc ELSE NoDoc

\* a step of the loop of the phase of key: one more entity is built
LoopStep(key) == phase = PhaseOf(key) /\ phase' = phase /\ i' = i + 1

C17_LinkCacheComplete ==
  (PhaseRank(phase) >= 5 /\ Has(input_data, "link_satellites")) =>
     /\ phase = "BuildLinkSatellites" => raised = "None"
     /\ \A k \in 1..Len(Links) :
          Has(Links[k], "name") =>
            /\ Links[k]["name"] \in DOMAIN links_metadata
            /\ links_metadata[Links[k]["name"]].business_keys
                 = DeclaredKeysOf("links", Links[k]["name"])

\* C18: the collision_code of every emitted hub document is the configured
\* collision_code, so any two hub documents of a run carry the same one
\* whatever the names of their hubs.
C18_CollisionFromConfig ==
  \A k \in 1..Attempted("hubs") :
     docs.hubs[k] # NoDoc =>
       /\ docs.hubs[k].collision_code = config.collision_code
       /\ \A m \in 1..Attempted("hubs") :
            docs.hubs[m] # NoDoc =>
              docs.hubs[m].collision_code = docs.hubs[k].collision_code

\* the catalog row a needed column of entity k resolves from (the first row
\* of the lookup frame with that column name), as a set of at most one row
CatalogRowOf(key, k, c) ==
  LET rows == FilterRows(LookupFrame(key, Declared(key)[k]), "COLUMN_NAME", {c})
  IN IF rows = <<>> THEN {} ELSE {rows[1]}

\* the type the builder of entity k resolves for a needed column
ResolvedType(key, k, c) ==
  DataTypeService_lookup_datatypes(NeededColumns(key, Declared(key)[k]),
      LookupFrame(key, Declared(key)[k]), LookupService(key))[c].data_type

\* C19: length formatting: in every emitted document, a needed column whose
\* catalog row is a bounded string (VARCHAR2) resolves to VARCHAR2(<length>)
\* when the catalog length is not a placeholder and to
\* VARCHAR2(<default_varchar_length>) when it is one of "-", empty or "nan".
C19_LengthFormatting ==
  \A p \in 1..Len(PhaseKeys) :
     LET key == PhaseKeys[p] IN
     \A k \in 1..Attempted(key) :
        docs[key][k] # NoDoc =>
          \A c \in ToSet(NeededColumns(key, Declared(key)[k])) :
             \A row \in CatalogRowOf(key, k, c) :
                (Has(row, "DATA_TYPE") /\ row["DATA_TYPE"] = "VARCHAR2") =>
                  ResolvedType(key, k, c) =
                    IF str_strip(row["LENGTH"]) \in {"-", "", "nan"}
                    THEN <<"VARCHAR2(", config.default_varchar_length, ")">>
                    ELSE <<"VARCHAR2(", str_strip(row["LENGTH"]), ")">>

\* C20: the hub and link caches are per-run state: a DataProcessor between
\* two runs (a run done or not yet started) holds no cache contents, and
\* every link (link satellite) that a run has built was validated against
\* the cache of the hubs (links) declared in that run's model.
C20_CachesPerRun ==
  /\ phase \in {"Init", "Done"} =>
       hubs_metadata = <<>> /\ links_metadata = <<>>
  /\ Attempted("links") > 0 => hubs_metadata = cache_hubs_metadata(input_data)
  /\ Attempted("link_satellites") > 0 =>
       links_metadata = cache_links_metadata(input_data)

TypeInTable(table, col) ==
  DataTypeService_lookup_datatypes(<<col>>,
      FilterRows(mapping_df, "TABLE_NAME", {table}), "sat")[col].data_type

\* C22: type resolution is keyed by (table, column): in every emitted
\* satellite and link-satellite document the type of each descriptive
\* attribute is the type of the catalog entry of that column in the entity's
\* own source_table, and the default type when that table has no such column.
C22_TypeByTableColumn ==
  \A key \in {"satellites", "link_satellites"} :
     \A k \in 1..Attempted(key) :
        docs[key][k] # NoDoc =>
          LET e == Declared(key)[k] IN
          \A a \in 1..Len(e["descriptive_attrs"]) :
             docs[key][k].columns[3 + a].dtype
               = TypeInTable(e["source_table"], e["descriptive_attrs"][a])

\* C23: the source_schema of every emitted hub document is the schema of
\* the first table of the hub's source_tables list that has rows in the
\* catalog, whatever the order of the catalog rows; a hub none of whose
\* source tables has rows in the catalog is recorded as an error and has no
\* document.
C23_HubSourceSchema ==
  \A k \in 1..Attempted("hubs") :
     LET hub == Declared("hubs")[k]
         RowsOf(t) == FilterRows(mapping_df, "TABLE_NAME", {t})
     IN /\ docs.hubs[k] # NoDoc =>
            \E j \in 1..Len(hub["source_tables"]) :
               /\ RowsOf(hub["source_tables"][j]) # <<>>
               /\ \A m \in 1..(j - 1) : RowsOf(hub["source_tables"][m]) = <<>>
               /\ docs.hubs[k].source_schema
                    = RowsOf(hub["source_tables"][j])[1]["SCHEMA_NAME"]
        /\ ( /\ HasAll(hub, ToSet(HubRequiredFields))
             /\ HasColumn(mapping_df, "TABLE_NAME")
             /\ FilterRows(mapping_df, "TABLE_NAME",
                           ToSet(hub["source_tables"])) = <<>> ) =>
            /\ docs.hubs[k] = NoDoc
            /\ results.hubs[k].status = "error"

\* the names and the types that the source of a hub document's column
\* carries: a biz_key column has one source with name and dtype, the hash
\* key column a list of plain key names, which carry no type (<< >>)
HubSourceNames(col) ==
  IF col.key_type = "biz_key" THEN <<col.source.name>> ELSE col.source

HubSourceTypes(col) ==
  IF col.key_type = "biz_key" THEN <<col.source.dtype>>
  ELSE [ j \in 1..Len(col.source) |-> <<>> ]

\* C24: every emitted hub document of a hub with n business keys has 1 + n
\* columns: first the hash_key_hub column whose source lists all business
\* keys in declaration order, each with its resolved type, then one biz_key
\* column per business key in declaration order, with a single source that
\* carries the key's name and resolved type.
C24_HubColumns ==
  \A k \in 1..Attempted("hubs") :
     docs.hubs[k] # NoDoc =>
       LET keys == Declared("hubs")[k]["business_keys"]
           cols == docs.hubs[k].columns
       IN /\ Len(cols) = 1 + Len(keys)
          /\ cols[1].key_type = "hash_key_hub"
          /\ HubSourceNames(cols[1]) = keys
          /\ HubSourceTypes(cols[1])
               = [ j \in 1..Len(keys) |-> ResolvedType("hubs", k, keys[j]) ]
          /\ \A j \in 1..Len(keys) :
               /\ cols[1 + j].key_type = "biz_key"
               /\ cols[1 + j].dtype = ResolvedType("hubs", k, keys[j])
               /\ HubSourceNames(cols[1 + j]) = <<keys[j]>>
               /\ HubSourceTypes(cols[1 + j])
                    = <<ResolvedType("hubs", k, keys[j])>>

\* C25: every emitted link document of a link with h related hubs has 1 + h
\* columns: first the hash_key_lnk column whose source is the link's full
\* business-key list, then, in related_hubs order, one hash_key_hub column
\* per related hub, with that hub as parent and as source exactly the
\* link's keys that are also declared keys of that hub, each once and with
\* its resolved type.
C25_LinkColumns ==
  \A k \in 1..Attempted("links") :
     docs.links[k] # NoDoc =>
       LET link == Links[k]
           cols == docs.links[k].columns
       IN /\ Len(cols) = 1 + Len(link["related_hubs"])
          /\ cols[1].key_type = "hash_key_lnk"
          /\ cols[1].source = link["business_keys"]
          /\ \A j \in 1..Len(link["related_hubs"]) :
               LET hub_name == link["related_hubs"][j]
                   col == cols[1 + j]
                   shared == ToSet(link["business_keys"])
                               \cap DeclaredKeysOf("hubs", hub_name)
               IN /\ col.key_type = "hash_key_hub"
                  /\ col.parent = Lower(hub_name)
                  /\ col.target = <<"dv_hkey_", Lower(hub_name)>>
                  /\ { col.source[s].name : s \in 1..Len(col.source) } = shared
                  /\ Len(col.source) = Cardinality(shared)
                  /\ \A s \in 1..Len(col.source) :
                       col.source[s].dtype
                         = ResolvedType("links", k, col.source[s].name)

\* scenario B: a valid link over two hubs has three columns, one key in the
\* source of each hub hash key
C25_Witness ==
  /\ Attempted("links") >= 1
  /\ docs.links[1] # NoDoc
  /\ docs.links[1].metadata.validation_status = "valid"
  /\ Len(docs.links[1].columns) = 3
  /\ docs.links[1].columns[2].source
       = <<[name |-> "ORDER_ID", dtype |-> <<"NUMBER">>]>>
  /\ docs.links[1].columns[3].source
       = <<[name |-> "CUSTOMER_ID", dtype |-> <<"NUMBER">>]>>

\* C26: every emitted satellite document lists hash_key_sat (no source),
\* hash_key_hub (source = the business keys), hash_diff (no source), then
\* one column per descriptive attribute in declaration order with key_type
\* descriptive and a single source carrying the resolved type; a
\* link-satellite document likewise with hash_key_lsat and hash_key_lnk;
\* every column carries a key_type.
C26_DependentColumns ==
  \A key \in {"satellites", "link_satellites"} :
     \A k \in 1..Attempted(key) :
        docs[key][k] # NoDoc =>
          LET e == Declared(key)[k]
              cols == docs[key][k].columns
              attrs == e["descriptive_attrs"]
          IN /\ Len(cols) = 3 + Len(attrs)
             /\ cols[1].key_type
                  = (IF key = "satellites" THEN "hash_key_sat" ELSE "hash_key_lsat")
             /\ cols[1].source = "None"
             /\ cols[2].key_type
                  = (IF key = "satellites" THEN "hash_key_hub" ELSE "hash_key_lnk")
             /\ cols[2].source = e["business_keys"]
             /\ cols[3].key_type = "hash_diff"
             /\ cols[3].source = "None"
             /\ \A a \in 1..Len(attrs) :
                  /\ cols[3 + a].target = <<attrs[a]>>
                  /\ cols[3 + a].source.name = attrs[a]
                  /\ cols[3 + a].source.dtype = cols[3 + a].dtype
                  /\ cols[3 + a].dtype = ResolvedType(key, k, attrs[a])
                  /\ Has(cols[3 + a], "key_type")
                  /\ cols[3 + a].key_type = "descriptive"

\* the warnings that validate returns for entity k of an emitted document
CollectedWarnings(key, k) ==
  CASE key = "hubs" -> HubParser_validate(Declared(key)[k]).warnings
    [] key = "links" ->
         LinkParser_validate(Declared(key)[k], hubs_metadata).warnings
    [] key = "satellites" -> SatelliteParser_validate(Declared(key)[k])
    [] key = "link_satellites" ->
         LinkSatelliteParser_validate(Declared(key)[k], links_metadata).warnings

\* C27: in every emitted document validation_status is valid and
\* validation_warnings is null when the builder collected no warning;
\* otherwise validation_status is warnings and validation_warnings is the
\* non-empty list of the collected warnings; the status and the warnings of
\* the entity's outcome in the results are those of the document.
C27_StatusMatchesWarnings ==
  \A p \in 1..Len(PhaseKeys) :
     LET key == PhaseKeys[p] IN
     \A k \in 1..Attempted(key) :
        docs[key][k] # NoDoc =>
          LET meta == docs[key][k].metadata
              w == CollectedWarnings(key, k)
          IN /\ meta.validation_status \in {"valid", "warnings"}
             /\ meta.validation_status = "valid" <=> w = <<>>
             /\ IF w = <<>> THEN meta.validation_warnings = "None"
                ELSE meta.validation_warnings = w
             /\ results[key][k].status = meta.validation_status
             /\ results[key][k].warnings = meta.validation_warnings

\* a link document and a link-satellite document emitted with warnings
\* next to a hub document emitted without
C27_Witness ==
  /\ Attempted("hubs") >= 1 /\ docs.hubs[1] # NoDoc
  /\ results.hubs[1].status = "valid"
  /\ Attempted("links") >= 1 /\ docs.links[1] # NoDoc
  /\ results.links[1].status = "warnings"
  /\ Attempted("link_satellites") >= 1 /\ docs.link_satellites[1] # NoDoc
  /\ results.link_satellites[1].status = "warnings"
  /\ CollectedWarnings("link_satellites", 1) # <<>>

\* the source tables an entity names
SourceTablesOf(key, e) ==
  IF key \in {"hubs", "links"} THEN ToSet(e["source_tables"])
  ELSE {e["source_table"]}

\* C28: every emitted document of every entity kind has a source_schema
\* that is not null, and it is the schema of catalog rows of a source table
\* of the entity: an entity none of whose source tables is in the catalog
\* has no document.
C28_SchemaDefined ==
  \A p \in 1..Len(PhaseKeys) :
     LET key == PhaseKeys[p] IN
     \A k \in 1..Attempted(key) :
        docs[key][k] # NoDoc =>
          /\ docs[key][k].source_schema # "None"
          /\ \E r \in 1..Len(mapping_df) :
               /\ mapping_df[r]["TABLE_NAME"]
                    \in SourceTablesOf(key, Declared(key)[k])
               /\ mapping_df[r]["SCHEMA_NAME"] = docs[key][k].source_schema

\* the key names in the source of a hub hash key column of a link document
HubColumnKeys(col) == { col.source[s].name : s \in 1..Len(col.source) }

\* C29: link key coverage: in every emitted link document, valid or with
\* warnings, the source of each hub hash-key column holds only business
\* keys of the link that are declared keys of that column's hub, and the
\* sources of all hub hash-key columns together hold every business key of
\* the link.
C29_LinkKeyCoverage ==
  \A k \in 1..Attempted("links") :
     docs.links[k] # NoDoc =>
       LET link_keys == ToSet(Links[k]["business_keys"])
           related == Links[k]["related_hubs"]
           hub_cols == SelectSeq(docs.links[k].columns,
                                 LAMBDA c : c.key_type = "hash_key_hub")
       IN /\ Len(hub_cols) = Len(related)
          /\ \A j \in 1..Len(hub_cols) :
               /\ HubColumnKeys(hub_cols[j]) \subseteq link_keys
               /\ HubColumnKeys(hub_cols[j])
                    \subseteq DeclaredKeysOf("hubs", related[j])
          /\ UNION { HubColumnKeys(hub_cols[j]) : j \in 1..Len(hub_cols) }
               = link_keys

\* a link document emitted with warnings: one related hub contributes no
\* key, the other hub's column covers the link's keys
C29_Witness ==
  /\ Attempted("links") >= 1
  /\ docs.links[1] # NoDoc
  /\ docs.links[1].metadata.validation_status = "warnings"
  /\ Links[1]["business_keys"] = <<"ORDER_ID">>
  /\ HubColumnKeys(docs.links[1].columns[2]) = {"ORDER_ID"}
  /\ HubColumnKeys(docs.links[1].columns[3]) = {}

\* ------------------------------------------ DataVaultMetadataProcessor
\* the names of the source columns that _process_column_mappings collects
\* for a column of a document: none for a null or empty source, one for a
\* single source (a biz_key or a descriptive column), the listed names for
\* a list of names or of {name, dtype} entries (the hub hash keys of a link
\* document, the columns with a parent)
MappingSourceNames(column) ==
  IF ~Has(column, "key_type") \/ column.key_type = "biz_key"
  THEN <<column.source.name>>
  ELSE IF column.key_type \in {"hash_key_sat", "hash_key_lsat", "hash_diff"}
  THEN <<>>
  ELSE IF Has(column, "parent")
  THEN [ s \in 1..Len(column.source) |-> column.source[s].name ]
  ELSE column.source

\* column['target'].startswith('DV_HKEY'): the comparison is case sensitive
\* and the builders' targets start with the piece "dv_hkey_"
startswith_DV_HKEY(target) == Head(target) = "DV_HKEY_"

\* the transformation rule stored for a column: HASH(...) or CONCAT(...) of
\* the source column names when there is more than one, else none
transformation_rule(column) ==
  LET source_columns == MappingSourceNames(column)
  IN IF Len(source_columns) > 1 /\ startswith_DV_HKEY(column.target)
     THEN [rule |-> "HASH", columns |-> source_columns]
     ELSE IF Len(source_columns) > 1
     THEN [rule |-> "CONCAT", columns |-> source_columns]
     ELSE [rule |-> "None", columns |-> <<>>]

\* column.get('key_type', '').startswith('hash_key')
is_hash_key(column) ==
  /\ Has(column, "key_type")
  /\ column.key_type \in {"hash_key_hub", "hash_key_lnk", "hash_key_sat",
                           "hash_key_lsat"}

\* C30: for every hash-key column with more than one source column in an
\* emitted document, the persistence step stores a HASH rule over the
\* source columns, never a CONCAT rule; a CONCAT rule is stored only for
\* columns that are not hash keys.
C30_HashRuleForHashKeys ==
  \A p \in 1..Len(PhaseKeys) :
     LET key == PhaseKeys[p] IN
     \A k \in 1..Attempted(key) :
        docs[key][k] # NoDoc =>
          \A c \in 1..Len(docs[key][k].columns) :
             LET column == docs[key][k].columns[c] IN
             /\ (is_hash_key(column) /\ Len(MappingSourceNames(column)) > 1) =>
                  transformation_rule(column)
                    = [rule |-> "HASH", columns |-> MappingSourceNames(column)]
             /\ transformation_rule(column).rule = "CONCAT" =>
                  ~is_hash_key(column)


====
